---- MODULE Spec2Model ----
(***************************************************************************)
(* pyboolnet/trap_spaces.py: the ASP encoding of trap spaces (primes2asp), *)
(* the gringo | clasp pipeline and the answer decoder (potassco_handle)    *)
(* and the public queries built on them.                                   *)
(*                                                                         *)
(* A Python dict is a set of <<key, value>> pairs with one pair per key.   *)
(* primes[name][value] is primes[name][value + 1] (sequences start at 1).  *)
(* A text is a sequence of lines; the words of a line of solver output are *)
(* sequences of one-character strings, so that slicing is real.            *)
(***************************************************************************)
EXTENDS Integers, Sequences, FiniteSets, TLC

VARIABLES pc, call, caller_primes, ph, asp_text, files, procs, answer_sets, output, error, result, outcome, log, pipes

vars == <<pc, call, caller_primes, ph, asp_text, files, procs, answer_sets, output, error, result, outcome, log, pipes>>

(* ------------------------------ bounds -------------------------------- *)

\* max_output ranges over 0..MaxOut and the default of the public queries
MaxOut == 1

\* an unreliable solver prints at most MaxBlocks answer blocks
MaxBlocks == 2

\* a pipe holds at most PipeCap lines; a write to a full pipe blocks
PipeCap == 2

\* default of max_output in every public query
DefaultMaxOutput == 1000

(* --------------------------- Python values ---------------------------- *)

None == "None"

NameOrder == <<"x", "y", "z">>

Values == {0, 1}

\* sorted(names): the names in lexicographic order
RECURSIVE SortedFrom(_, _)
SortedFrom(names, i) ==
    IF i > Len(NameOrder) THEN <<>>
    ELSE (IF NameOrder[i] \in names THEN <<NameOrder[i]>> ELSE <<>>) \o SortedFrom(names, i + 1)

Sorted(names) == SortedFrom(names, 1)

Keys(d) == {p[1] : p \in d}

Get(d, n) == (CHOOSE p \in d : p[1] = n)[2]

\* dict(pairs): a later pair replaces an earlier one with the same key
RECURSIVE DictOf(_)
DictOf(pairs) ==
    IF pairs = <<>> THEN {}
    ELSE LET n == Len(pairs)
             rest == DictOf(SubSeq(pairs, 1, n - 1))
         IN  {p \in rest : p[1] # pairs[n][1]} \cup {pairs[n]}

Range(s) == {s[i] : i \in 1..Len(s)}

\* the elements of S in one order
RECURSIVE SetToSeq(_)
SetToSeq(S) ==
    IF S = {} THEN <<>>
    ELSE LET x == CHOOSE y \in S : TRUE
         IN  <<x>> \o SetToSeq(S \ {x})

\* the rotations of a sequence
Rotations(seq) == {SubSeq(seq, i, Len(seq)) \o SubSeq(seq, 1, i - 1) : i \in 1..Len(seq)} \cup {seq}

Min(a, b) == IF a < b THEN a ELSE b

(* ------------------------------ networks ------------------------------ *)

\* trap_spaces docstring: x, !x | y | z ; y, !x&z | y&!z ; z, x&y | z
PrimesExample ==
    [x |-> << <<{<<"x", 1>>, <<"y", 0>>, <<"z", 0>>}>>,
              <<{<<"x", 0>>}, {<<"y", 1>>}, {<<"z", 1>>}>> >>,
     y |-> << <<{<<"x", 1>>, <<"y", 0>>}, {<<"x", 1>>, <<"z", 1>>}, {<<"y", 0>>, <<"z", 0>>}>>,
              <<{<<"x", 0>>, <<"z", 1>>}, {<<"y", 1>>, <<"z", 0>>}>> >>,
     z |-> << <<{<<"x", 0>>, <<"z", 0>>}, {<<"y", 0>>, <<"z", 0>>}>>,
              <<{<<"x", 1>>, <<"y", 1>>}, {<<"z", 1>>}>> >>]

\* x, !x
PrimesNeg ==
    [x |-> << <<{<<"x", 1>>}>>, <<{<<"x", 0>>}>> >>]

\* x, x | y ; y, y
PrimesOr ==
    [x |-> << <<{<<"x", 0>>, <<"y", 0>>}>>, <<{<<"x", 1>>}, {<<"y", 1>>}>> >>,
     y |-> << <<{<<"y", 0>>}>>, <<{<<"y", 1>>}>> >>]

\* x, 1 ; y, x
PrimesConst ==
    [x |-> << <<>>, <<{}>> >>,
     y |-> << <<{<<"x", 0>>}>>, <<{<<"x", 1>>}>> >>]

Networks == {PrimesExample, PrimesNeg, PrimesOr, PrimesConst}

\* the networks of the queries about a subspace and of the bounded query
SmallNetworks == {PrimesNeg, PrimesOr}

\* all dicts over the given names
Subspaces(names) == {d \in SUBSET (names \X Values) : \A p, q \in d : p[1] = q[1] => p = q}

(* ----------------------------- primes2asp ------------------------------ *)

\* a line of the program text; comments and blank lines are left out
Line(k) == [k |-> k, id |-> 0, tv |-> <<"", 0>>, src |-> {}, n |-> 0]

NoBounds == [kind |-> None, items |-> <<>>]

NoProject == [kind |-> None, items |-> <<>>]

IntElem(v) == [t |-> "int", v |-> v]

\* a float, held as twice its value: 1.5 is FloatElem(3)
FloatElem(twice) == [t |-> "float", v |-> twice]

SymbolN == [t |-> "n", v |-> 0]

StrElem == [t |-> "str", v |-> 0]

Tuple(items) == [kind |-> "tuple", items |-> items]

List(items) == [kind |-> "list", items |-> items]

\* Python truth value of None, a tuple or a list
Truthy(x) == x.kind # None /\ x.items # <<>>

\* '%i' % (e + d) for a number e; d is -1 or +1
FormatI(e, d) ==
    IF e.t = "int" THEN e.v + d
    ELSE LET twice == e.v + 2 * d
         IN  IF twice >= 0 THEN twice \div 2 ELSE -((-twice) \div 2)

IsNumber(e) == e.t \in {"int", "float"}

\* lines 393-401: the primes of primes[name][value], for value 0 then 1
TargetsOf(primes, name) ==
    [i \in 1..Len(primes[name][1]) |-> <<name, 0, primes[name][1][i]>>]
    \o [i \in 1..Len(primes[name][2]) |-> <<name, 1, primes[name][2][i]>>]

RECURSIVE TargetsFrom(_, _)
TargetsFrom(primes, names) ==
    IF names = <<>> THEN <<>>
    ELSE TargetsOf(primes, Head(names)) \o TargetsFrom(primes, Tail(names))

\* lines 393-401: one line per prime, target and sources sharing the arc index
ArcLines(primes) ==
    LET T == TargetsFrom(primes, Sorted(DOMAIN primes))
    IN  [i \in 1..Len(T) |-> [Line("arc") EXCEPT !.id = i, !.tv = <<T[i][1], T[i][2]>>, !.src = T[i][3]]]

\* lines 415-425 with the closure rule left out
ClosureLines_omitted(type_) == <<>>

\* lines 415-425: the closure rule of the variant
ClosureLines(type_) ==
    IF type_ \in {"percolated", "circuits"} THEN <<Line("percolation")>> ELSE <<Line("bijection")>>

\* lines 404-436
RuleLines(type_) ==
    <<Line("generator"), Line("consistency"), Line("stability")>>
    \o ClosureLines(type_)
    \o (IF type_ = "circuits" THEN <<Line("circuits")>> ELSE <<>>)
    \o <<Line("hit")>>

\* lines 438-443: the cardinality constraints, or the exception raised on the way
BoundsLines(bounds) ==
    IF ~Truthy(bounds) THEN [exc |-> "", lines |-> <<>>]
    ELSE LET b == bounds.items
         IN  IF ~IsNumber(b[1]) THEN [exc |-> "TypeError", lines |-> <<>>]
             ELSE IF Len(b) < 2 THEN [exc |-> "IndexError", lines |-> <<>>]
             ELSE IF ~IsNumber(b[2]) THEN [exc |-> "TypeError", lines |-> <<>>]
             ELSE [exc |-> "",
                   lines |-> (IF b[1].v > 0 THEN <<[Line("lower") EXCEPT !.n = FormatI(b[1], -1)]>> ELSE <<>>)
                             \o <<[Line("upper") EXCEPT !.n = FormatI(b[2], 1)]>>]

\* lines 383-384 with every name kept
FilterProject_keep_absent(project, primes) == project

\* lines 383-384
FilterProject(project, primes) ==
    IF Truthy(project)
    THEN [project EXCEPT !.items = SelectSeq(project.items, LAMBDA x : x \in DOMAIN primes)]
    ELSE project

\* lines 448-462
ShowLines(project, type_) ==
    IF Truthy(project)
    THEN <<Line("show")>> \o [i \in 1..Len(project.items) |-> [Line("show_hit") EXCEPT !.tv = <<project.items[i], 0>>]]
    ELSE IF type_ = "circuits" THEN <<Line("show_percolated1"), Line("show_hit2")>>
    ELSE <<Line("show_hit2")>>

TrapSpaceTypes == {"max", "min", "all", "percolated", "circuits"}

\* lines 339-470: the text, whether fname_asp was written, or the exception
primes2asp(primes, fname_asp, bounds, project, type_, extra_lines) ==
    LET fail(e) == [exc |-> e, text |-> <<>>, wrote |-> FALSE]
        proj == FilterProject(project, primes)
        bl == BoundsLines(bounds)
        text == ArcLines(primes) \o RuleLines(type_) \o bl.lines \o extra_lines \o ShowLines(proj, type_)
    IN  IF type_ \notin ({None} \cup TrapSpaceTypes) THEN fail("AssertionError")
        ELSE IF bounds.kind \notin {None, "tuple"} THEN fail("AssertionError")
        ELSE IF project.kind \notin {None, "list"} THEN fail("AssertionError")
        ELSE IF bl.exc # "" THEN fail(bl.exc)
        ELSE IF fname_asp = None THEN fail("TypeError")
        ELSE [exc |-> "", text |-> text, wrote |-> TRUE]

(* ------------------- the program text as gringo | clasp read it -------- *)

Has(text, k) == \E i \in 1..Len(text) : text[i].k = k

LinesOf(text, k) == {text[i] : i \in {j \in 1..Len(text) : text[j].k = k}}

\* line 436: hit(V,S) :- in_set(ID), target(V,S,ID).
HitOf(arcs, X) == {a.tv : a \in {b \in arcs : b.id \in X}}

\* the rules of a program text: which constraints it holds, and their numbers
RulesOf(text) ==
    [consistency |-> Has(text, "consistency"),
     stability |-> Has(text, "stability"),
     bijection |-> Has(text, "bijection"),
     percolation |-> Has(text, "percolation"),
     lower |-> {l.n : l \in LinesOf(text, "lower")},
     upper |-> {l.n : l \in LinesOf(text, "upper")},
     must_hit |-> {l.tv : l \in LinesOf(text, "must_hit")}]

\* lines 406-425 and 438-446: X, a choice of in_set atoms, is an answer set
IsAnswerSet(rules, arcs, X) ==
    LET hit == HitOf(arcs, X)
    IN  /\ rules.consistency => \A p \in hit : <<p[1], 1 - p[2]>> \notin hit
        /\ rules.stability => \A a \in arcs : a.id \in X => a.src \subseteq hit
        /\ rules.bijection => \A a \in arcs : (a.tv \in hit /\ a.src \subseteq hit) => a.id \in X
        /\ rules.percolation => \A a \in arcs : a.src \subseteq hit => a.id \in X
        /\ \A n \in rules.lower : ~(Cardinality(hit) <= n)
        /\ \A n \in rules.upper : ~(Cardinality(hit) >= n)
        /\ rules.must_hit \subseteq hit

\* the answer sets of the program text, each as its set of chosen arcs
AnswerSets(text) ==
    LET arcs == LinesOf(text, "arc")
        rules == RulesOf(text)
    IN  {X \in SUBSET {a.id : a \in arcs} : IsAnswerSet(rules, arcs, X)}

\* line 431: upstream(V1,V2) :- upstream(V1,V3), upstream(V3,V2).
RECURSIVE TransitiveClosure(_)
TransitiveClosure(R) ==
    LET R2 == R \cup {<<pq[1][1], pq[2][2]>> : pq \in {rs \in R \X R : rs[1][2] = rs[2][1]}}
    IN  IF R2 = R THEN R ELSE TransitiveClosure(R2)

\* line 430: upstream(V1,V2) :- in_set(ID), target(V1,S1,ID), source(V2,S2,ID).
Upstream(arcs, X) ==
    TransitiveClosure(UNION {{<<a.tv[1], s[1]>> : s \in a.src} : a \in {b \in arcs : b.id \in X}})

\* line 432: percolated(V1) :- hit(V1,S), not upstream(V1,V1).
Percolated(text, arcs, X) ==
    IF Has(text, "circuits")
    THEN {p[1] : p \in {q \in HitOf(arcs, X) : <<q[1], q[1]>> \notin Upstream(arcs, X)}}
    ELSE {}

\* lines 448-462: the atoms of the answer set X that the #show directives print
Shown(text, X) ==
    LET arcs == LinesOf(text, "arc")
        hit == HitOf(arcs, X)
        names == {l.tv[1] : l \in LinesOf(text, "show_hit")}
    IN  [hit |-> IF Has(text, "show") THEN {p \in hit : p[1] \in names}
                 ELSE IF Has(text, "show_hit2") THEN hit ELSE {},
         perc |-> IF ~Has(text, "show") /\ Has(text, "show_percolated1") THEN Percolated(text, arcs, X) ELSE {}]

(* ------------------------------- clasp --------------------------------- *)

Chars(str) == <<str>>

Quote == "\""

\* an atom as clasp prints it: hit("x",1) and percolated("x")
HitWord(p) == <<"h", "i", "t", "(", Quote>> \o Chars(p[1]) \o <<Quote, ",", IF p[2] = 1 THEN "1" ELSE "0", ")">>

PercolatedWord(n) == <<"p", "e", "r", "c", "o", "l", "a", "t", "e", "d", "(", Quote>> \o Chars(n) \o <<Quote, ")">>

AnswerWord == <<"A", "n", "s", "w", "e", "r", ":">>

NoiseWord == <<"c", "l", "a", "s", "p">>

\* the words of the line clasp prints for a shown answer, in name order
RECURSIVE FactWords(_, _)
FactWords(shown, names) ==
    IF names = <<>> THEN <<>>
    ELSE LET n == Head(names)
         IN  (IF \E p \in shown.hit : p[1] = n THEN <<HitWord(<<n, Get(shown.hit, n)>>)>> ELSE <<>>)
             \o (IF n \in shown.perc THEN <<PercolatedWord(n)>> ELSE <<>>)
             \o FactWords(shown, Tail(names))

\* clasp's standard output for a sequence of shown answers
RECURSIVE AnswerBlocks(_)
AnswerBlocks(answers) ==
    IF answers = <<>> THEN <<>>
    ELSE << <<AnswerWord>>, FactWords(Head(answers), NameOrder) >> \o AnswerBlocks(Tail(answers))

ClaspOutput(answers) ==
    << <<NoiseWord>> >> \o AnswerBlocks(answers) \o << <<NoiseWord>>, <<>> >>

\* lines 489-495: --project lists each shown set once; domRec with dom-mod 5 keeps
\* the subset-minimal shown sets, with dom-mod 3 the subset-maximal ones
ClaspModels(text, sets, params_clasp) ==
    LET all == {Shown(text, X) : X \in sets}
    IN  IF "--dom-mod=5,16" \in Range(params_clasp)
        THEN {s \in all : ~\E t \in all : t.hit \subseteq s.hit /\ t.hit # s.hit}
        ELSE IF "--dom-mod=3,16" \in Range(params_clasp)
        THEN {s \in all : ~\E t \in all : s.hit \subseteq t.hit /\ t.hit # s.hit}
        ELSE all

\* a solver that works: up to --models answers (0: all of them); the orders in
\* which it may list them are taken to be the rotations of one order
SoundAnswers(text, sets, cmd_clasp) ==
    LET M == ClaspModels(text, sets, cmd_clasp.params)
        k == IF cmd_clasp.models = 0 THEN Cardinality(M) ELSE Min(cmd_clasp.models, Cardinality(M))
    IN  {SubSeq(r, 1, k) : r \in Rotations(SetToSeq(M))}

\* a solver that does not: it heeds neither --models nor the domRec options and
\* stops after any number of answers up to MaxBlocks
UnsoundAnswers(text, sets) ==
    LET M == {Shown(text, X) : X \in sets}
    IN  {SubSeq(r, 1, k) : r \in Rotations(SetToSeq(M)), k \in 0..Min(MaxBlocks, Cardinality(M))}

(* ------------------------------ the decoder ---------------------------- *)

\* s[a:] with the last `drop` characters cut off: s[a:-drop], or s[a:] for drop = 0
PySlice(s, a, drop) == SubSeq(s, a + 1, Len(s) - drop)

\* s[:n]
Prefix(s, n) == SubSeq(s, 1, Min(n, Len(s)))

\* the characters of a line: its words joined by blanks
RECURSIVE LineText(_)
LineText(words) ==
    IF words = <<>> THEN <<>>
    ELSE IF Len(words) = 1 THEN words[1]
    ELSE words[1] \o <<" ">> \o LineText(Tail(words))

\* sub in s
Contains(s, sub) == \E i \in 0..(Len(s) - Len(sub)) : SubSeq(s, i + 1, i + Len(sub)) = sub

\* s.split(sep) for a one-character sep
RECURSIVE Split(_, _)
Split(s, sep) ==
    IF \A i \in 1..Len(s) : s[i] # sep THEN <<s>>
    ELSE LET i == CHOOSE j \in 1..Len(s) : s[j] = sep /\ \A h \in 1..(j - 1) : s[h] # sep
         IN  <<SubSeq(s, 1, i - 1)>> \o Split(SubSeq(s, i + 1, Len(s)), sep)

\* the name a sequence of characters spells; the names here have one character
NameOf(cs) == IF Len(cs) = 1 THEN cs[1] ELSE ""

\* int(cs)
IntOf(cs) == IF cs = <<"1">> THEN 1 ELSE 0

\* lines 558-559 and 576-577: x[4:-1].split(","), then (x[0][1:-1], int(x[1]))
ParseHit(x) ==
    LET parts == Split(PySlice(x, 4, 1), ",")
    IN  <<NameOf(PySlice(parts[1], 1, 1)), IntOf(parts[2])>>

\* lines 576-578: the dict of an answer line
ParseSubspace(words) == DictOf([i \in 1..Len(words) |-> ParseHit(words[i])])

\* lines 557-568: the (circ, perc) pair of an answer line
ParseCircuit(words) ==
    LET tspace == SelectSeq(words, LAMBDA x : Contains(x, <<"h", "i", "t">>))
        pairs == [i \in 1..Len(tspace) |-> ParseHit(tspace[i])]
        names == {NameOf(PySlice(x, 12, 2)) : x \in {w \in Range(words) : Contains(w, <<"p", "e", "r", "c">>)}}
        perc == DictOf(SelectSeq(pairs, LAMBDA x : x[1] \in names))
        circ == DictOf(SelectSeq(pairs, LAMBDA x : x[1] \notin Keys(perc)))
    IN  <<circ, perc>>

\* the loop condition with <= in place of <
KeepDecoding_inclusive(lines, decoded, max_output) == lines # <<>> /\ Len(decoded) <= max_output

\* lines 551 and 571: while lines and len(result) < max_output
KeepDecoding(lines, decoded, max_output) == lines # <<>> /\ Len(decoded) < max_output

\* lines 547-578: the decoded answers, or the exception of a pop from no lines
RECURSIVE Decode(_, _, _, _)
Decode(lines, decoded, max_output, type_) ==
    IF ~KeepDecoding(lines, decoded, max_output) THEN [exc |-> "", result |-> decoded]
    ELSE IF Prefix(LineText(Head(lines)), 6) # <<"A", "n", "s", "w", "e", "r">>
    THEN Decode(Tail(lines), decoded, max_output, type_)
    ELSE IF Tail(lines) = <<>> THEN [exc |-> "IndexError", result |-> decoded]
    ELSE LET line == lines[2]
             answer == IF type_ = "circuits" THEN ParseCircuit(line) ELSE ParseSubspace(line)
         IN  Decode(Tail(Tail(lines)), Append(decoded, answer), max_output, type_)

(* ---------------------- pyboolnet.state_space -------------------------- *)

\* one character per name of primes, in sorted order: the value, or "-" when free
subspace2str(primes, subspace) ==
    LET names == Sorted(DOMAIN primes)
    IN  [i \in 1..Len(names) |->
            IF names[i] \in Keys(subspace)
            THEN (IF Get(subspace, names[i]) = 1 THEN "1" ELSE "0")
            ELSE "-"]

subspace2dict(primes, str) ==
    LET names == Sorted(DOMAIN primes)
    IN  {<<names[i], IF str[i] = "1" THEN 1 ELSE 0>> : i \in {j \in 1..Len(names) : str[j] # "-"}}

(* -------------------- pyboolnet.prime_implicants ----------------------- *)

Consistent(p, q) == \A a \in p : <<a[1], 1 - a[2]>> \notin q

\* the primes that are consistent with subspace; a name the subspace fixes keeps
\* only the primes of its fixed value
active_primes(primes, subspace) ==
    [name \in DOMAIN primes |->
        [v \in 1..2 |->
            IF name \in Keys(subspace) /\ Get(subspace, name) # v - 1 THEN <<>>
            ELSE SelectSeq(primes[name][v], LAMBDA p : Consistent(p, subspace))]]

ConstantPrimes(value) == IF value = 0 THEN << <<{}>>, <<>> >> ELSE << <<>>, <<{}>> >>

\* every name of constants becomes a constant of primes; in place, the object the
\* caller passed is the one that changes
create_constants(primes, constants, in_place) ==
    LET made == [name \in DOMAIN primes |->
                    IF name \in Keys(constants) THEN ConstantPrimes(Get(constants, name)) ELSE primes[name]]
    IN  [returned |-> made, argument |-> IF in_place THEN made ELSE primes]

ConstantsOf(primes) ==
    {<<n, 0>> : n \in {m \in DOMAIN primes : primes[m] = ConstantPrimes(0)}}
    \cup {<<n, 1>> : n \in {m \in DOMAIN primes : primes[m] = ConstantPrimes(1)}}

\* one round of percolation: primes that contradict a constant go, constants are
\* dropped from the primes that stay, and a name with an empty prime is constant
PercolateStep(primes) ==
    LET consts == ConstantsOf(primes)
        reduce(ps) == [i \in 1..Len(SelectSeq(ps, LAMBDA p : Consistent(p, consts))) |->
                          SelectSeq(ps, LAMBDA p : Consistent(p, consts))[i] \ consts]
    IN  [name \in DOMAIN primes |->
            LET r == <<reduce(primes[name][1]), reduce(primes[name][2])>>
            IN  IF {} \in Range(r[1]) THEN ConstantPrimes(0)
                ELSE IF {} \in Range(r[2]) THEN ConstantPrimes(1)
                ELSE r]

RECURSIVE percolate_and_keep_constants(_)
percolate_and_keep_constants(primes) ==
    IF PercolateStep(primes) = primes THEN ConstantsOf(primes)
    ELSE percolate_and_keep_constants(PercolateStep(primes))

(* ------------------------------- inputs -------------------------------- *)

MaxOutputs == (0..MaxOut) \cup {DefaultMaxOutput}

\* a file name, or None
FileNames == {None, "tspaces.asp"}

\* the two representations and one that is none of them
Representations == {"dict", "str", "xml"}

\* the five variants and one that is none of them
TypeInputs == TrapSpaceTypes \cup {"attractors"}

\* bounds as callers of trap_spaces_bounded may pass them
BoundsInputs ==
    {NoBounds, Tuple(<<>>),
     Tuple(<<IntElem(0), SymbolN>>), Tuple(<<IntElem(1), IntElem(2)>>), Tuple(<<SymbolN, SymbolN>>),
     Tuple(<<IntElem(-1), IntElem(2)>>), Tuple(<<IntElem(1), IntElem(-1)>>),
     Tuple(<<FloatElem(3), IntElem(2)>>), Tuple(<<StrElem, IntElem(1)>>), Tuple(<<IntElem(0), StrElem>>),
     Tuple(<<IntElem(1)>>), Tuple(<<IntElem(0), IntElem(1), IntElem(2)>>),
     List(<<IntElem(0), IntElem(1)>>)}

\* a name that no network has
AbsentName == "w"

\* projections as callers may pass them: lists of names of the network and of
\* AbsentName, the empty list among them
ProjectInputs ==
    {List(<<>>), List(<<"x">>), List(<<"y", "x">>), List(<<AbsentName>>), List(<<"x", AbsentName>>)}

\* the subspaces the queries are asked about: every state, the whole space, and
\* the subspaces that fix the first name only
QuerySubspaces(primes) ==
    {d \in Subspaces(DOMAIN primes) :
        \/ Keys(d) = DOMAIN primes
        \/ Keys(d) \subseteq {Sorted(DOMAIN primes)[1]}}

\* the stderr of clasp: nothing, a warning, a fatal message
DiagnosticStreams == {<<>>, <<"Warn">>, <<"***", "ERROR">>}

(* ------------------------------- state --------------------------------- *)

Unbound == [bound |-> FALSE, models |-> 0, params |-> <<>>]

NoCall ==
    [api |-> "", primes |-> <<>>, subspace |-> {}, type_ |-> "", bounds |-> NoBounds,
     max_output |-> 0, fname_asp |-> None, representation |-> "", as_str |-> FALSE]

NoHandle ==
    [primes |-> <<>>, type_ |-> "", bounds |-> NoBounds, project |-> NoProject, max_output |-> 0,
     fname_asp |-> None, representation |-> "", extra_lines |-> <<>>, cmd_gringo |-> Unbound, cmd_clasp |-> Unbound]

\* the two processes: whether each was spawned, what happened to gringo's stdin,
\* what raised in the try block, the answers clasp printed and whether they are
\* what a working solver prints
NoProcs == [gringo |-> FALSE, clasp |-> FALSE, stdin |-> "none", fault |-> "none", answers |-> <<>>, sound |-> FALSE]

Pending == [kind |-> "none", exc |-> "", status |-> -1]

Returned == [kind |-> "return", exc |-> "", status |-> -1]

Raised(e) == [kind |-> "raise", exc |-> e, status |-> -1]

\* sys.exit(): SystemExit with no code, exit status 0 when nothing catches it
SysExit == [kind |-> "exit", exc |-> "SystemExit", status |-> 0]

\* the try block of potassco_handle as three processes and five pipes. parent is
\* the line the parent is at and left the lines of text it has still to write;
\* gringo and clasp are "none" (not spawned), "running" or "exited"; g_in, g_out
\* and g_err count the lines in the pipes of gringo's stdin, stdout and stderr,
\* c_out and c_err those of clasp's stdout and stderr; g_eof and c_eof tell
\* whether the process has read its input to the end; the todo fields count the
\* lines the process has still to print
NoPipes ==
    [parent |-> "none", left |-> 0, gringo |-> "none", clasp |-> "none",
     g_in |-> 0, g_in_closed |-> FALSE, g_out |-> 0, g_err |-> 0, c_out |-> 0, c_err |-> 0,
     g_eof |-> FALSE, c_eof |-> FALSE,
     g_todo_out |-> 0, g_todo_err |-> 0, c_todo_out |-> 0, c_todo_err |-> 0]

Init ==
    /\ pipes = NoPipes
    /\ pc = "idle"
    /\ call = NoCall
    /\ caller_primes = <<>>
    /\ ph = NoHandle
    /\ asp_text = <<>>
    /\ files = {}
    /\ procs = NoProcs
    /\ answer_sets = {}
    /\ output = <<>>
    /\ error = <<>>
    /\ result = <<>>
    /\ outcome = Pending
    /\ log = <<>>

\* the arguments of a call of potassco_handle
Handle(primes, type_, bounds, project, max_output, fname_asp, representation, extra_lines) ==
    [NoHandle EXCEPT !.primes = primes, !.type_ = type_, !.bounds = bounds, !.project = project,
                     !.max_output = max_output, !.fname_asp = fname_asp,
                     !.representation = representation, !.extra_lines = extra_lines]

\* lines 243-245: the trivial trap space is excluded from the maximal ones
TrapSpacesBounds(option) == IF option = "max" THEN Tuple(<<IntElem(1), SymbolN>>) ELSE NoBounds

\* lines 243-248
trap_spaces ==
    /\ pc = "idle"
    /\ \E primes \in Networks, option \in TypeInputs, max_output \in MaxOutputs, fname_asp \in FileNames, representation \in Representations :
        /\ call' = [NoCall EXCEPT !.api = "trap_spaces", !.primes = primes, !.type_ = option, !.max_output = max_output,
                                  !.fname_asp = fname_asp, !.representation = representation]
        /\ caller_primes' = primes
        /\ ph' = Handle(primes, option, TrapSpacesBounds(option), NoProject, max_output, fname_asp, representation, <<>>)
    /\ pc' = "potassco_handle"
    /\ UNCHANGED <<pipes, asp_text, files, procs, answer_sets, output, error, result, outcome, log>>

\* line 306
trap_spaces_bounded ==
    /\ pc = "idle"
    /\ \E primes \in SmallNetworks, type_ \in {"all", "max"}, bounds \in BoundsInputs, fname_asp \in FileNames :
        /\ call' = [NoCall EXCEPT !.api = "trap_spaces_bounded", !.primes = primes, !.type_ = type_, !.bounds = bounds,
                                  !.max_output = DefaultMaxOutput, !.fname_asp = fname_asp, !.representation = "dict"]
        /\ caller_primes' = primes
        /\ ph' = Handle(primes, type_, bounds, NoProject, DefaultMaxOutput, fname_asp, "dict", <<>>)
    /\ pc' = "potassco_handle"
    /\ UNCHANGED <<pipes, asp_text, files, procs, answer_sets, output, error, result, outcome, log>>

\* lines 115-116; as_str: the subspace is passed in its string form
GivenSubspace(primes, subspace, as_str) ==
    IF as_str THEN subspace2dict(primes, subspace2str(primes, subspace)) ELSE subspace

\* the arguments of a query about a subspace
IntersectCall(api, primes, given, type_, fname_asp, representation, max_output) ==
    [NoCall EXCEPT !.api = api, !.primes = primes, !.subspace = given, !.type_ = type_,
                   !.max_output = max_output, !.fname_asp = fname_asp, !.representation = representation]

\* lines 118-124
IntersectHandle(primes, given, type_, fname_asp, representation, max_output) ==
    Handle(active_primes(primes, given), type_, IF type_ = "max" THEN Tuple(<<IntElem(1), SymbolN>>) ELSE NoBounds,
           List(<<>>), max_output, fname_asp, representation, <<>>)

\* lines 92-124
trapspaces_that_intersect_subspace ==
    /\ pc = "idle"
    /\ \E primes \in SmallNetworks, type_ \in TypeInputs, max_output \in MaxOutputs, fname_asp \in FileNames, representation \in Representations :
        \E subspace \in QuerySubspaces(primes), as_str \in BOOLEAN :
            LET given == GivenSubspace(primes, subspace, as_str)
            IN  /\ call' = IntersectCall("trapspaces_that_intersect_subspace", primes, given, type_, fname_asp, representation, max_output)
                /\ caller_primes' = primes
                /\ ph' = IntersectHandle(primes, given, type_, fname_asp, representation, max_output)
    /\ pc' = "potassco_handle"
    /\ UNCHANGED <<pipes, asp_text, files, procs, answer_sets, output, error, result, outcome, log>>

\* lines 89 and 112-124
trapspaces_that_contain_state ==
    /\ pc = "idle"
    /\ \E primes \in SmallNetworks, max_output \in {1, DefaultMaxOutput}, fname_asp \in FileNames, representation \in {"dict", "str"} :
        \E state \in {d \in QuerySubspaces(primes) : Keys(d) = DOMAIN primes} :
            /\ call' = IntersectCall("trapspaces_that_contain_state", primes, state, "min", fname_asp, representation, max_output)
            /\ caller_primes' = primes
            /\ ph' = IntersectHandle(primes, state, "min", fname_asp, representation, max_output)
    /\ pc' = "potassco_handle"
    /\ UNCHANGED <<pipes, asp_text, files, procs, answer_sets, output, error, result, outcome, log>>

\* lines 204, 89 and 112-124
smallest_trapspace ==
    /\ pc = "idle"
    /\ \E primes \in SmallNetworks, representation \in {"dict", "str"} :
        \E state \in {d \in QuerySubspaces(primes) : Keys(d) = DOMAIN primes} :
            /\ call' = IntersectCall("smallest_trapspace", primes, state, "min", None, representation, DefaultMaxOutput)
            /\ caller_primes' = primes
            /\ ph' = IntersectHandle(primes, state, "min", None, representation, DefaultMaxOutput)
    /\ pc' = "potassco_handle"
    /\ UNCHANGED <<pipes, asp_text, files, procs, answer_sets, output, error, result, outcome, log>>

\* lines 178-179: one constraint per name the subspace fixes, in the order of the dict
MustHitLines(subspace) ==
    LET names == Sorted(Keys(subspace))
    IN  [i \in 1..Len(names) |-> [Line("must_hit") EXCEPT !.tv = <<names[i], Get(subspace, names[i])>>]]

\* lines 166-183: `not subspace` is tested on the value as passed, a dict or its
\* string form; the string form is made a dict after the test
trapspaces_within_subspace ==
    /\ pc = "idle"
    /\ \E primes \in SmallNetworks, type_ \in TrapSpaceTypes, max_output \in MaxOutputs, fname_asp \in FileNames, representation \in {"dict", "str"} :
        \E subspace \in QuerySubspaces(primes), as_str \in BOOLEAN :
            LET passed_empty == IF as_str THEN subspace2str(primes, subspace) = <<>> ELSE subspace = {}
                given == GivenSubspace(primes, subspace, as_str)
            IN  /\ call' = [IntersectCall("trapspaces_within_subspace", primes, given, type_, fname_asp, representation, max_output)
                               EXCEPT !.as_str = as_str]
                /\ caller_primes' = primes
                /\ ph' = IF passed_empty
                         THEN Handle(primes, type_, TrapSpacesBounds(type_), NoProject, max_output, fname_asp, representation, <<>>)
                         ELSE Handle(active_primes(primes, given), type_, Tuple(<<IntElem(Cardinality(given)), SymbolN>>),
                                     List(<<>>), max_output, fname_asp, representation, MustHitLines(given))
    /\ pc' = "potassco_handle"
    /\ UNCHANGED <<pipes, asp_text, files, procs, answer_sets, output, error, result, outcome, log>>

\* lines 331-336: unknown names are logged, then sys.exit(); else the steady
\* states are asked for with the projection
steady_states_projected ==
    /\ pc = "idle"
    /\ \E primes \in SmallNetworks, project \in ProjectInputs, fname_asp \in FileNames :
        /\ call' = [NoCall EXCEPT !.api = "steady_states_projected", !.primes = primes, !.max_output = DefaultMaxOutput,
                                  !.fname_asp = fname_asp, !.representation = "dict"]
        /\ caller_primes' = primes
        /\ IF Range(project.items) \ DOMAIN primes # {}
           THEN /\ log' = Append(log, "error: can not project steady states")
                /\ outcome' = SysExit
                /\ pc' = "done"
                /\ UNCHANGED ph
           ELSE /\ ph' = Handle(primes, "all", Tuple(<<SymbolN, SymbolN>>), project, DefaultMaxOutput, fname_asp, "dict", <<>>)
                /\ pc' = "potassco_handle"
                /\ UNCHANGED <<log, outcome>>
    /\ UNCHANGED <<pipes, asp_text, files, procs, answer_sets, output, error, result>>

\* lines 339-470: the encoder called by itself, as its docstring calls it
primes2asp_called ==
    /\ pc = "idle"
    /\ \E primes \in SmallNetworks, fname_asp \in FileNames, type_ \in {"all", "circuits"} :
        \E project \in ProjectInputs \cup {NoProject, Tuple(<<"x">>)} :
            LET r == primes2asp(primes, fname_asp, NoBounds, project, type_, <<>>)
            IN  /\ call' = [NoCall EXCEPT !.api = "primes2asp", !.primes = primes, !.type_ = type_, !.fname_asp = fname_asp]
                /\ caller_primes' = primes
                /\ ph' = Handle(primes, type_, NoBounds, project, 0, fname_asp, "", <<>>)
                /\ asp_text' = r.text
                /\ files' = IF r.wrote THEN files \cup {fname_asp} ELSE files
                /\ log' = IF r.exc = "" THEN Append(log, "info: created") ELSE log
                /\ outcome' = IF r.exc = "" THEN Returned ELSE Raised(r.exc)
    /\ pc' = "done"
    /\ UNCHANGED <<pipes, procs, answer_sets, output, error, result>>

(* --------------------------- potassco_handle --------------------------- *)

\* lines 486-487: "n" stands for len(primes); whatever was passed becomes a tuple
ResolveBounds(bounds, primes) ==
    IF Truthy(bounds)
    THEN Tuple([i \in 1..Len(bounds.items) |->
                   IF bounds.items[i].t = "n" THEN IntElem(Cardinality(DOMAIN primes)) ELSE bounds.items[i]])
    ELSE bounds

\* lines 489-495
ParamsClasp(type_) ==
    <<"--project">>
    \o (IF type_ = "max" THEN <<"--enum-mode=domRec", "--heuristic=Domain", "--dom-mod=5,16">>
        ELSE IF type_ = "min" THEN <<"--enum-mode=domRec", "--heuristic=Domain", "--dom-mod=3,16">>
        ELSE <<>>)

\* lines 503 and 516
CmdClasp(max_output, type_) == [bound |-> TRUE, models |-> max_output, params |-> ParamsClasp(type_)]

\* lines 501 and 514
CmdGringo == [bound |-> TRUE, models |-> 0, params |-> <<>>]

ValidQuery == ph.type_ \in TrapSpaceTypes /\ ph.representation \in {"str", "dict"}

Encoded == primes2asp(ph.primes, ph.fname_asp, ResolveBounds(ph.bounds, ph.primes), ph.project, ph.type_, ph.extra_lines)

\* lines 478-484: an unknown type or representation is logged, then sys.exit()
potassco_handle_rejects ==
    /\ pc = "potassco_handle"
    /\ ~ValidQuery
    /\ log' = Append(log, IF ph.type_ \notin TrapSpaceTypes THEN "error: unknown trap space type"
                          ELSE "error: unknown trap space representation")
    /\ outcome' = SysExit
    /\ pc' = "done"
    /\ UNCHANGED <<pipes, call, caller_primes, ph, asp_text, files, procs, answer_sets, output, error, result>>

\* lines 486-497 with primes2asp returning the text
potassco_handle_encodes ==
    /\ pc = "potassco_handle"
    /\ ValidQuery
    /\ Encoded.exc = ""
    /\ ph' = [ph EXCEPT !.bounds = ResolveBounds(ph.bounds, ph.primes)]
    /\ asp_text' = Encoded.text
    /\ files' = IF Encoded.wrote THEN files \cup {ph.fname_asp} ELSE files
    /\ log' = Append(log, "info: created")
    /\ pc' = "pipeline"
    /\ UNCHANGED <<pipes, call, caller_primes, procs, answer_sets, output, error, result, outcome>>

\* lines 486-497 with primes2asp raising: the exception leaves potassco_handle
primes2asp_raises ==
    /\ pc = "potassco_handle"
    /\ ValidQuery
    /\ Encoded.exc # ""
    /\ ph' = [ph EXCEPT !.bounds = ResolveBounds(ph.bounds, ph.primes)]
    /\ outcome' = Raised(Encoded.exc)
    /\ pc' = "done"
    /\ UNCHANGED <<pipes, call, caller_primes, asp_text, files, procs, answer_sets, output, error, result, log>>

\* lines 499-507 and 514-517: both processes are spawned, the text reaches gringo
\* (through its stdin, or from the file) and gringo grounds it
pipeline_spawns ==
    /\ pc = "pipeline"
    /\ ph' = [ph EXCEPT !.cmd_gringo = CmdGringo, !.cmd_clasp = CmdClasp(ph.max_output, ph.type_)]
    /\ procs' = [procs EXCEPT !.gringo = TRUE, !.clasp = TRUE,
                              !.stdin = IF ph.fname_asp = None THEN "written and closed" ELSE "none"]
    /\ answer_sets' = AnswerSets(asp_text)
    /\ pc' = "communicate"
    /\ UNCHANGED <<pipes, call, caller_primes, asp_text, files, output, error, result, outcome, log>>

\* lines 509-511 and 519-521: clasp ends and both of its streams have been read
pipeline_runs ==
    /\ pc = "communicate"
    /\ LET sound == SoundAnswers(asp_text, answer_sets, ph.cmd_clasp)
       IN  \E answers \in sound \cup UnsoundAnswers(asp_text, answer_sets), diagnostics \in DiagnosticStreams :
               /\ procs' = [procs EXCEPT !.answers = answers, !.sound = answers \in sound]
               /\ output' = ClaspOutput(answers)
               /\ error' = diagnostics
    /\ pc' = "diagnostics"
    /\ UNCHANGED <<pipes, call, caller_primes, ph, asp_text, files, answer_sets, result, outcome, log>>

\* where the try block of lines 499-521 can raise
PipelineFaults == {"spawn gringo", "spawn clasp", "write stdin", "communicate"}

\* lines 523-531: the handler; naming cmd_clasp before line 503 or 516 has run
\* raises UnboundLocalError in place of the exception being handled
pipeline_raises ==
    /\ pc = "pipeline"
    /\ \E fault \in PipelineFaults :
        /\ fault = "write stdin" => ph.fname_asp = None
        /\ LET cmd_clasp == IF fault = "spawn gringo" THEN Unbound ELSE CmdClasp(ph.max_output, ph.type_)
               logged == log \o <<"error: asp_text", "error: exception", "error: call failed">>
           IN  /\ ph' = [ph EXCEPT !.cmd_gringo = CmdGringo, !.cmd_clasp = cmd_clasp]
               /\ procs' = [procs EXCEPT !.gringo = fault # "spawn gringo",
                                         !.clasp = fault \in {"write stdin", "communicate"},
                                         !.fault = fault]
               /\ IF ph.fname_asp # None /\ ~cmd_clasp.bound
                  THEN /\ log' = logged
                       /\ outcome' = Raised("UnboundLocalError")
                  ELSE /\ log' = logged \o (IF ph.fname_asp # None THEN <<"info: command">> ELSE <<>>)
                       /\ outcome' = Raised(fault)
    /\ pc' = "done"
    /\ UNCHANGED <<pipes, call, caller_primes, asp_text, files, answer_sets, output, error, result>>

\* line 533: "ERROR" in error
FatalMarker(diagnostics) == "ERROR" \in Range(diagnostics)

\* lines 533-539: the fatal marker is logged, then sys.exit()
solver_error ==
    /\ pc = "diagnostics"
    /\ FatalMarker(error)
    /\ log' = log \o <<"error: call failed">> \o (IF ph.fname_asp # None THEN <<"error: asp file">> ELSE <<>>)
                  \o <<"error: command", "error: error">>
    /\ outcome' = SysExit
    /\ pc' = "done"
    /\ UNCHANGED <<pipes, call, caller_primes, ph, asp_text, files, procs, answer_sets, output, error, result>>

\* lines 584-588
Represent(decoded, primes, type_, representation) ==
    IF representation # "str" THEN decoded
    ELSE IF type_ = "circuits"
    THEN [i \in 1..Len(decoded) |-> <<subspace2str(primes, decoded[i][1]), subspace2str(primes, decoded[i][2])>>]
    ELSE [i \in 1..Len(decoded) |-> subspace2str(primes, decoded[i])]

\* lines 547-590: the answers are decoded and potassco_handle returns them
potassco_handle_returns ==
    /\ pc = "diagnostics"
    /\ ~FatalMarker(error)
    /\ LET d == Decode(output, <<>>, ph.max_output, ph.type_)
       IN  IF d.exc # ""
           THEN /\ outcome' = Raised(d.exc)
                /\ pc' = "done"
                /\ UNCHANGED <<result, log>>
           ELSE /\ result' = Represent(d.result, ph.primes, ph.type_, ph.representation)
                /\ log' = IF Len(d.result) = ph.max_output THEN Append(log, "info: possibly more") ELSE log
                /\ pc' = "return"
                /\ UNCHANGED outcome
    /\ UNCHANGED <<pipes, call, caller_primes, ph, asp_text, files, procs, answer_sets, output, error>>

(* ----------------------------- the queries ----------------------------- *)

\* the queries that return what potassco_handle returned
PlainApis == {"trap_spaces", "trap_spaces_bounded", "steady_states_projected", "trapspaces_within_subspace"}

\* lines 183, 247, 306 and 336: the query returns what potassco_handle returned
query_returns ==
    /\ pc = "return"
    /\ call.api \in PlainApis
    /\ outcome' = Returned
    /\ pc' = "done"
    /\ UNCHANGED <<pipes, call, caller_primes, ph, asp_text, files, procs, answer_sets, output, error, result, log>>

\* lines 126-143 without the default for no solutions
IntersectResult_no_default(tspaces, primes, subspace, type_, representation) ==
    IF tspaces # <<>> /\ Cardinality(subspace) = Cardinality(DOMAIN primes) /\ type_ = "min"
    THEN IF Len(tspaces) > 1 THEN [outcome |-> SysExit, value |-> <<>>]
         ELSE [outcome |-> Returned, value |-> <<tspaces[Len(tspaces)]>>]
    ELSE [outcome |-> Returned, value |-> tspaces]

\* lines 126-143: the empty subspace for no solutions, and the uniqueness of the
\* smallest trap space of a state
IntersectResult(tspaces, primes, subspace, type_, representation) ==
    IF tspaces = <<>>
    THEN [outcome |-> Returned, value |-> <<IF representation = "str" THEN subspace2str(primes, {}) ELSE {}>>]
    ELSE IF Cardinality(subspace) = Cardinality(DOMAIN primes) /\ type_ = "min"
    THEN IF Len(tspaces) > 1 THEN [outcome |-> SysExit, value |-> <<>>]
         ELSE [outcome |-> Returned, value |-> <<tspaces[Len(tspaces)]>>]
    ELSE [outcome |-> Returned, value |-> tspaces]

IntersectApis == {"trapspaces_that_intersect_subspace", "trapspaces_that_contain_state", "smallest_trapspace"}

\* lines 126-143
intersect_returns ==
    /\ pc = "return"
    /\ call.api \in IntersectApis
    /\ LET r == IntersectResult(result, call.primes, call.subspace, call.type_, call.representation)
       IN  /\ outcome' = r.outcome
           /\ result' = r.value
           /\ log' = IF r.outcome.kind = "exit" THEN log \o <<"error: must be unique", "error: found", "error: tspaces">> ELSE log
    /\ pc' = "done"
    /\ UNCHANGED <<pipes, call, caller_primes, ph, asp_text, files, procs, answer_sets, output, error>>

\* lines 63-66
percolate_trapspace ==
    /\ pc = "idle"
    /\ \E primes \in Networks :
        \E trap_space \in Subspaces(DOMAIN primes) :
            LET made == create_constants(primes, trap_space, TRUE)
            IN  /\ call' = [NoCall EXCEPT !.api = "percolate_trapspace", !.primes = primes, !.subspace = trap_space]
                /\ caller_primes' = made.argument
                /\ result' = percolate_and_keep_constants(made.returned)
    /\ outcome' = Returned
    /\ pc' = "done"
    /\ UNCHANGED <<pipes, ph, asp_text, files, procs, answer_sets, output, error, log>>

Next ==
    \/ trap_spaces
    \/ trap_spaces_bounded
    \/ trapspaces_that_intersect_subspace
    \/ trapspaces_that_contain_state
    \/ smallest_trapspace
    \/ trapspaces_within_subspace
    \/ steady_states_projected
    \/ primes2asp_called
    \/ percolate_trapspace
    \/ potassco_handle_rejects
    \/ potassco_handle_encodes
    \/ primes2asp_raises
    \/ pipeline_spawns
    \/ pipeline_runs
    \/ pipeline_raises
    \/ solver_error
    \/ potassco_handle_returns
    \/ query_returns
    \/ intersect_returns

Spec == Init /\ [][Next]_vars

(* ------------------- the pipes of gringo | clasp ------------------------ *)

query_vars == <<pc, call, caller_primes, ph, asp_text, files, procs, answer_sets, output, error, result, outcome, log>>

\* how many lines a process may print to one stream: none, what a pipe holds,
\* and more than a pipe holds
Amounts == {0, PipeCap, PipeCap + 1}

\* line 497 has returned the text of trap_spaces(primes, "all") and the try block
\* of line 499 is entered, with a file name or with None
PipeInit ==
    /\ \E fname_asp \in FileNames :
        /\ call = [NoCall EXCEPT !.api = "trap_spaces", !.primes = PrimesNeg, !.type_ = "all", !.max_output = DefaultMaxOutput,
                                 !.fname_asp = fname_asp, !.representation = "dict"]
        /\ ph = Handle(PrimesNeg, "all", NoBounds, NoProject, DefaultMaxOutput, fname_asp, "dict", <<>>)
        /\ files = {fname_asp} \ {None}
    /\ pc = "pipeline"
    /\ caller_primes = PrimesNeg
    /\ asp_text = primes2asp(PrimesNeg, "tspaces.asp", NoBounds, NoProject, "all", <<>>).text
    /\ procs = NoProcs
    /\ answer_sets = {}
    /\ output = <<>>
    /\ error = <<>>
    /\ result = <<>>
    /\ outcome = Pending
    /\ log = <<"info: created">>
    /\ pipes = [NoPipes EXCEPT !.parent = "spawn gringo"]

\* lines 502 and 515: gringo starts with three pipes; with a file name it reads
\* the file, and its stdin pipe is left alone
parent_spawns_gringo ==
    /\ pipes.parent = "spawn gringo"
    /\ \E out \in Amounts \ {0}, err \in Amounts :
        pipes' = [pipes EXCEPT !.parent = "spawn clasp", !.gringo = "running",
                               !.g_eof = ph.fname_asp # None, !.g_todo_out = out, !.g_todo_err = err]
    /\ UNCHANGED query_vars

\* lines 504 and 517: clasp starts, its stdin the read end of gringo's stdout
parent_spawns_clasp ==
    /\ pipes.parent = "spawn clasp"
    /\ \E out \in Amounts \ {0}, err \in Amounts :
        pipes' = [pipes EXCEPT !.parent = IF ph.fname_asp = None THEN "write" ELSE "communicate",
                               !.left = IF ph.fname_asp = None THEN Len(asp_text) ELSE 0,
                               !.clasp = "running", !.c_todo_out = out, !.c_todo_err = err]
    /\ UNCHANGED query_vars

\* lines 506-507: the text goes into gringo's stdin, a line at a time when the
\* pipe has room; write and the flush of close return when all of it is in
parent_writes ==
    /\ pipes.parent = "write"
    /\ pipes.left > 0
    /\ pipes.g_in < PipeCap
    /\ pipes' = [pipes EXCEPT !.left = @ - 1, !.g_in = @ + 1]
    /\ UNCHANGED query_vars

\* line 507
parent_closes ==
    /\ pipes.parent = "write"
    /\ pipes.left = 0
    /\ pipes' = [pipes EXCEPT !.parent = "communicate", !.g_in_closed = TRUE]
    /\ UNCHANGED query_vars

\* lines 509 and 519: communicate reads clasp's stdout and stderr, whichever has
\* something; gringo's stderr is not among the streams it reads
parent_reads ==
    /\ pipes.parent = "communicate"
    /\ \/ pipes.c_out > 0 /\ pipes' = [pipes EXCEPT !.c_out = @ - 1]
       \/ pipes.c_err > 0 /\ pipes' = [pipes EXCEPT !.c_err = @ - 1]
    /\ UNCHANGED query_vars

\* lines 509 and 519: both streams are at their end and clasp has exited
parent_communicated ==
    /\ pipes.parent = "communicate"
    /\ pipes.clasp = "exited"
    /\ pipes.c_out = 0
    /\ pipes.c_err = 0
    /\ pipes' = [pipes EXCEPT !.parent = "communicated"]
    /\ UNCHANGED query_vars

\* gringo takes a line from its stdin, or finds the end of it
gringo_reads ==
    /\ pipes.gringo = "running"
    /\ ~pipes.g_eof
    /\ \/ pipes.g_in > 0 /\ pipes' = [pipes EXCEPT !.g_in = @ - 1]
       \/ pipes.g_in = 0 /\ pipes.g_in_closed /\ pipes' = [pipes EXCEPT !.g_eof = TRUE]
    /\ UNCHANGED query_vars

\* gringo prints a line of the ground program once it has read its input
gringo_writes_stdout ==
    /\ pipes.gringo = "running"
    /\ pipes.g_eof
    /\ pipes.g_todo_out > 0
    /\ pipes.g_out < PipeCap
    /\ pipes' = [pipes EXCEPT !.g_todo_out = @ - 1, !.g_out = @ + 1]
    /\ UNCHANGED query_vars

\* gringo prints a line of diagnostics, at any time
gringo_writes_stderr ==
    /\ pipes.gringo = "running"
    /\ pipes.g_todo_err > 0
    /\ pipes.g_err < PipeCap
    /\ pipes' = [pipes EXCEPT !.g_todo_err = @ - 1, !.g_err = @ + 1]
    /\ UNCHANGED query_vars

\* gringo has read its input and printed everything
gringo_exits ==
    /\ pipes.gringo = "running"
    /\ pipes.g_eof
    /\ pipes.g_todo_out = 0
    /\ pipes.g_todo_err = 0
    /\ pipes' = [pipes EXCEPT !.gringo = "exited"]
    /\ UNCHANGED query_vars

\* clasp takes a line from gringo's stdout, or finds the end of it: the pipe is
\* empty and gringo, the one holder of its write end, has exited
clasp_reads ==
    /\ pipes.clasp = "running"
    /\ ~pipes.c_eof
    /\ \/ pipes.g_out > 0 /\ pipes' = [pipes EXCEPT !.g_out = @ - 1]
       \/ pipes.g_out = 0 /\ pipes.gringo = "exited" /\ pipes' = [pipes EXCEPT !.c_eof = TRUE]
    /\ UNCHANGED query_vars

\* clasp prints a line of its answers once it has read its input
clasp_writes_stdout ==
    /\ pipes.clasp = "running"
    /\ pipes.c_eof
    /\ pipes.c_todo_out > 0
    /\ pipes.c_out < PipeCap
    /\ pipes' = [pipes EXCEPT !.c_todo_out = @ - 1, !.c_out = @ + 1]
    /\ UNCHANGED query_vars

\* clasp prints a line of diagnostics, at any time
clasp_writes_stderr ==
    /\ pipes.clasp = "running"
    /\ pipes.c_todo_err > 0
    /\ pipes.c_err < PipeCap
    /\ pipes' = [pipes EXCEPT !.c_todo_err = @ - 1, !.c_err = @ + 1]
    /\ UNCHANGED query_vars

\* clasp has read its input and printed everything
clasp_exits ==
    /\ pipes.clasp = "running"
    /\ pipes.c_eof
    /\ pipes.c_todo_out = 0
    /\ pipes.c_todo_err = 0
    /\ pipes' = [pipes EXCEPT !.clasp = "exited"]
    /\ UNCHANGED query_vars

PipeNext ==
    \/ parent_spawns_gringo
    \/ parent_spawns_clasp
    \/ parent_writes
    \/ parent_closes
    \/ parent_reads
    \/ parent_communicated
    \/ gringo_reads
    \/ gringo_writes_stdout
    \/ gringo_writes_stderr
    \/ gringo_exits
    \/ clasp_reads
    \/ clasp_writes_stdout
    \/ clasp_writes_stderr
    \/ clasp_exits

\* a process that can take a step takes one
PipeFairness ==
    /\ WF_vars(parent_spawns_gringo) /\ WF_vars(parent_spawns_clasp) /\ WF_vars(parent_writes)
    /\ WF_vars(parent_closes) /\ WF_vars(parent_reads) /\ WF_vars(parent_communicated)
    /\ WF_vars(gringo_reads) /\ WF_vars(gringo_writes_stdout) /\ WF_vars(gringo_writes_stderr) /\ WF_vars(gringo_exits)
    /\ WF_vars(clasp_reads) /\ WF_vars(clasp_writes_stdout) /\ WF_vars(clasp_writes_stderr) /\ WF_vars(clasp_exits)

PipeSpec == PipeInit /\ [][PipeNext]_vars /\ PipeFairness

(* ------------------------------ properties ----------------------------- *)

\* clasp ran and printed what no working solver prints
Unreliable == output # <<>> /\ ~procs.sound

\* something outside the program failed: a spawn or the pipe I/O raised, clasp
\* reported a fatal error, or clasp printed wrong answers
ExternalFailure == procs.fault # "none" \/ FatalMarker(error) \/ Unreliable

\* the number of answers the decoder keeps of k printed ones
Kept == Min(ph.max_output, Len(procs.answers))

\* the strings ---, --1, 1-1, -00, 101
FiveStrings == {<<"-", "-", "-">>, <<"-", "-", "1">>, <<"1", "-", "1">>, <<"-", "0", "0">>, <<"1", "0", "1">>}

ExampleQuery ==
    /\ call.api = "trap_spaces"
    /\ call.primes = PrimesExample
    /\ call.type_ = "all"
    /\ call.representation = "str"
    /\ call.max_output >= 5

\* C1: trap_spaces(primes, "all", representation="str") of the docstring network,
\* called as the docstring calls it (no fname_asp) with max_output >= 5 and with
\* nothing failing outside the program, returns the five strings ---, --1, 1-1,
\* -00, 101, each once.
C1_ExampleReturnsFiveStrings ==
    (pc = "done" /\ ExampleQuery /\ call.fname_asp = None /\ ~ExternalFailure)
        => (outcome.kind = "return" /\ Len(result) = 5 /\ Range(result) = FiveStrings)

\* the same query with a file name for the program text does return the five
ExampleWithFileReturnsFiveStrings ==
    (pc = "done" /\ ExampleQuery /\ call.fname_asp # None /\ ~ExternalFailure)
        => (outcome.kind = "return" /\ Len(result) = 5 /\ Range(result) = FiveStrings)

\* X keeps only arcs whose sources it hits, and hits no name with both values
Stable(arcs, X) ==
    /\ \A a \in arcs : a.id \in X => a.src \subseteq HitOf(arcs, X)
    /\ \A p \in HitOf(arcs, X) : <<p[1], 1 - p[2]>> \notin HitOf(arcs, X)

\* C2: for every variant other than percolated and circuits, two answer sets of
\* the generated program that differ in their in_set atoms differ in their hit
\* atoms: no subspace is an answer twice.
C2_AnswerSetsBijective ==
    (asp_text # <<>> /\ ph.type_ \notin {"percolated", "circuits"})
        => \A X, Y \in answer_sets :
               HitOf(LinesOf(asp_text, "arc"), X) = HitOf(LinesOf(asp_text, "arc"), Y) => X = Y

\* C2 witness: the text of an "all" query was grounded and one of its answer sets
\* has a proper part that is stable too and hits the same atoms, so that only
\* the bijection rule keeps that part from being a second answer
C2_Witness ==
    /\ pc = "communicate"
    /\ ph.type_ = "all"
    /\ \E X \in answer_sets : \E Y \in SUBSET X :
           /\ Y # X
           /\ Stable(LinesOf(asp_text, "arc"), Y)
           /\ HitOf(LinesOf(asp_text, "arc"), Y) = HitOf(LinesOf(asp_text, "arc"), X)

FullState == Cardinality(call.subspace) = Cardinality(DOMAIN call.primes)

UniquenessError == outcome.kind = "exit" /\ "error: must be unique" \in Range(log)

\* C3: for a state and max_output >= 1, the query for the smallest trap space
\* (type_ "min" through trapspaces_that_intersect_subspace, through
\* trapspaces_that_contain_state or through smallest_trapspace) ends, when
\* nothing but the solver's answers went wrong, either by returning exactly one
\* trap space, or, when the solver printed more than one, with the uniqueness
\* error.
C3_SmallestIsUniqueOrError ==
    (/\ pc = "done"
     /\ call.api \in IntersectApis
     /\ call.type_ = "min"
     /\ call.representation \in {"dict", "str"}
     /\ call.max_output >= 1
     /\ FullState
     /\ procs.fault = "none"
     /\ ~FatalMarker(error))
        => IF Len(procs.answers) > 1 THEN UniquenessError
           ELSE outcome.kind = "return" /\ Len(result) = 1

\* what the decoder is to make of a printed answer
Expected(answer, type_) ==
    IF type_ = "circuits"
    THEN <<{p \in answer.hit : p[1] \notin answer.perc}, {p \in answer.hit : p[1] \in answer.perc}>>
    ELSE answer.hit

\* potassco_handle has returned to the query, or the query has returned its list
Decoded == pc = "return" \/ (pc = "done" /\ outcome.kind = "return" /\ call.api \in PlainApis)

\* C4: of k printed answer blocks and with max_output = m the decoder returns the
\* first min(m, k), in the order printed; with k > m these are m answers, the
\* "possibly more" notice is logged, and nothing is raised.
C4_DecoderKeepsFirstAnswers ==
    Decoded =>
        /\ result = Represent([i \in 1..Kept |-> Expected(procs.answers[i], ph.type_)], ph.primes, ph.type_, ph.representation)
        /\ Len(procs.answers) > ph.max_output =>
               (Len(result) = ph.max_output /\ "info: possibly more" \in Range(log) /\ outcome.kind # "raise" /\ outcome.kind # "exit")

\* C4 witness: more answers were printed than max_output >= 1 allows, and
\* potassco_handle returned max_output of them
C4_Witness ==
    /\ pc = "return"
    /\ ph.max_output >= 1
    /\ Len(procs.answers) > ph.max_output
    /\ Len(result) = ph.max_output

\* C5: a query with no fname_asp, when nothing fails outside the program, writes
\* no file, streams the text to gringo's stdin and returns the decoded answers.
C5_NoFileNeeded ==
    (/\ pc = "done"
     /\ call.api \in {"trap_spaces"} \cup IntersectApis
     /\ call.fname_asp = None
     /\ call.type_ \in TrapSpaceTypes
     /\ call.representation \in {"dict", "str"}
     /\ ~ExternalFailure)
        => (outcome.kind = "return" /\ files = {} /\ procs.stdin = "written and closed")

\* C6: whatever raises in the try block (a spawn, the write to stdin, the read of
\* the streams) is logged with the program text and is the exception that leaves
\* potassco_handle; no result is returned.
C6_PipelineExceptionPropagates ==
    (pc = "done" /\ procs.fault # "none")
        => (outcome = Raised(procs.fault) /\ "error: asp_text" \in Range(log) /\ result = <<>>)

\* C7: with the fatal marker in clasp's stderr the query returns nothing and the
\* process ends with a non-zero exit status.
C7_FatalMarkerExitsNonZero ==
    (pc = "done" /\ FatalMarker(error))
        => (outcome.kind = "exit" /\ outcome.status # 0 /\ result = <<>>)

\* None, or a 2-tuple of non-negative integers once "n" is resolved
ValidBounds(bounds) ==
    \/ bounds.kind = None
    \/ /\ bounds.kind = "tuple"
       /\ Len(bounds.items) = 2
       /\ \A i \in 1..2 : bounds.items[i].t = "n" \/ (bounds.items[i].t = "int" /\ bounds.items[i].v >= 0)

\* C8: a bounds value that is neither None nor a 2-tuple of non-negative integers
\* makes the query fail before any program text exists or a process is spawned,
\* and the query returns nothing.
C8_MalformedBoundsRejected ==
    (call.api = "trap_spaces_bounded" /\ ~ValidBounds(call.bounds))
        => (asp_text = <<>> /\ ~procs.gringo /\ ~procs.clasp /\ outcome.kind # "return" /\ pc \notin {"pipeline", "communicate", "diagnostics", "return"})

\* C9: percolate_trapspace leaves the caller's primes as they were.
C9_PercolateKeepsCallerPrimes ==
    (pc = "done" /\ call.api = "percolate_trapspace") => caller_primes = call.primes

\* the empty subspace in the representation asked for, over the caller's primes
EmptySubspace ==
    IF call.representation = "str" THEN [i \in 1..Cardinality(DOMAIN call.primes) |-> "-"] ELSE {}

\* C10: trapspaces_that_intersect_subspace and trapspaces_that_contain_state never
\* return an empty list; when the pipeline yields no solution for the restricted
\* primes, the list holds the empty subspace alone, in the representation asked
\* for.
C10_NeverEmpty ==
    (pc = "done" /\ call.api \in IntersectApis /\ outcome.kind = "return")
        => (result # <<>> /\ (Kept = 0 => result = <<EmptySubspace>>))

\* C10 witness: a working solver found no trap space for the restricted primes of
\* a "max" query with max_output >= 1, and the query returned the empty subspace
C10_Witness ==
    /\ pc = "done"
    /\ call.api \in IntersectApis
    /\ call.type_ = "max"
    /\ call.max_output >= 1
    /\ procs.sound
    /\ procs.answers = <<>>
    /\ outcome.kind = "return"
    /\ result = <<EmptySubspace>>

\* the names of the projection passed to the encoder that primes has
KeptNames == Range(ph.project.items) \cap DOMAIN ph.primes

\* the names the "#show hit(n,S) : hit(n,S)." lines of the text name
ShowHitNames == {l.tv[1] : l \in LinesOf(asp_text, "show_hit")}

\* the text shows the hit facts of the names in `names` and nothing else, and so
\* does every answer printed for it
ShowsOnly(names) ==
    /\ Has(asp_text, "show")
    /\ ~Has(asp_text, "show_hit2")
    /\ ~Has(asp_text, "show_percolated1")
    /\ ShowHitNames = names
    /\ \A i \in 1..Len(procs.answers) :
           {p[1] : p \in procs.answers[i].hit} \subseteq names /\ procs.answers[i].perc = {}

\* the text shows every hit fact, and the percolated facts for circuits
ShowsAll ==
    /\ ~Has(asp_text, "show")
    /\ ShowHitNames = {}
    /\ Has(asp_text, "show_hit2")
    /\ Has(asp_text, "show_percolated1") <=> ph.type_ = "circuits"

\* C11 as stated: whenever a projection list, any value other than None, is
\* passed to the encoder, the text shows only the hit facts of the names of the
\* list that primes has, and the unrestricted directives are not emitted; also
\* when the list is empty or none of its names is in primes.
C11_AnyListRestrictsOutput ==
    (asp_text # <<>> /\ ph.project.kind # None) => ShowsOnly(KeptNames)

\* C11 amended: a projection list with at least one name of primes makes the
\* text show only the hit facts of those names, the names absent from primes
\* dropped; with None, with the empty list and with a list that has no name of
\* primes the unrestricted directives are emitted ("#show hit/2.", and
\* "#show percolated/1." for circuits).
C11_NonEmptyProjectionRestrictsOutput ==
    asp_text # <<>> => IF KeptNames # {} THEN ShowsOnly(KeptNames) ELSE ShowsAll

\* C11 witness: the encoder was handed a list with a name of primes and a name
\* absent from primes, and the text it wrote shows the hit facts of the former
C11_Witness ==
    /\ pc = "done"
    /\ call.api = "primes2asp"
    /\ AbsentName \in Range(ph.project.items)
    /\ KeptNames # {}
    /\ ShowHitNames = KeptNames

\* what trap_spaces(primes, option, max_output, "tspaces.asp", representation) may
\* return with a working solver: one list for each order of the answers
TrapSpacesResults(primes, option, max_output, representation) ==
    LET text == primes2asp(primes, "tspaces.asp", ResolveBounds(TrapSpacesBounds(option), primes), NoProject, option, <<>>).text
    IN  {Represent([i \in 1..Min(max_output, Len(a)) |-> Expected(a[i], option)], primes, option, representation) :
            a \in SoundAnswers(text, AnswerSets(text), CmdClasp(max_output, option))}

\* a query for the trap spaces within the empty subspace has ended, its program
\* text was written and nothing failed outside the program
WithinEmptyDone ==
    /\ pc = "done"
    /\ call.api = "trapspaces_within_subspace"
    /\ call.subspace = {}
    /\ asp_text # <<>>
    /\ ~ExternalFailure

\* the query passed the bounds of trap_spaces and returned one of its results
AsTrapSpaces ==
    /\ ph.bounds = ResolveBounds(TrapSpacesBounds(call.type_), call.primes)
    /\ outcome.kind = "return"
    /\ result \in TrapSpacesResults(call.primes, call.type_, call.max_output, call.representation)

\* C12: on the empty subspace, given as the empty mapping or as its all-free
\* string, trapspaces_within_subspace gives, for every variant ("max" among
\* them), max_output and representation, the cardinality bounds and the result
\* of trap_spaces(primes, variant) on the same primes.
C12_WithinEmptyIsTrapSpaces == WithinEmptyDone => AsTrapSpaces

\* given as the empty mapping, it does
WithinEmptyMappingIsTrapSpaces == (WithinEmptyDone /\ ~call.as_str) => AsTrapSpaces

\* no process of the pipeline can take a step
Blocked == pipes.parent # "none" /\ ~ENABLED PipeNext

\* clasp has exited and communicate has returned
PipelineEnded == pipes.clasp = "exited" /\ pipes.parent = "communicated"

\* C13: the pipeline does not deadlock on its pipes. With gringo and clasp each
\* ending once they have read their input and printed their output, and with
\* pipes of bounded size, whenever no process can take a step clasp has exited
\* and communicate has returned.
C13_PipelineNeverBlocks == Blocked => PipelineEnded

\* it does not when gringo's diagnostics fit into the pipe of its stderr
NeverBlocksWithFewDiagnostics ==
    (Blocked /\ pipes.g_todo_err + pipes.g_err <= PipeCap) => PipelineEnded

\* and in that case every run ends
EndsWithFewDiagnostics ==
    (pipes.gringo = "running" /\ pipes.g_todo_err + pipes.g_err <= PipeCap) ~> PipelineEnded

====
